---- MODULE Spec2Model ----
(***************************************************************************)
(* A model of the particle core of GuoLei1990/engineX:                     *)
(*   ParticleSystem  (packages/core/src/particle/ParticleSystem.ts)        *)
(*   EmissionModule  (packages/core/src/particle/modules/EmissionModule.ts)*)
(*   MainModule      (packages/core/src/particle/moudules/MainModule.ts)   *)
(*                                                                         *)
(* Numbers.  Every time in the model is a whole number of seconds, so the  *)
(* arithmetic of the source is exact; the rate of emission is a fraction   *)
(* num/den with num dividing den, so that emitInterval = 1/rate is whole.  *)
(* A Float32Array read outside its bounds yields undefined, arithmetic on  *)
(* undefined yields NaN and every comparison with NaN is false; Undef      *)
(* stands for both.  A write outside the bounds is ignored.                *)
(*                                                                         *)
(* Exceptions.  A RangeError raised inside a handler ends the handler at   *)
(* that point; what was assigned before stays assigned.  The field err of  *)
(* the threaded record is the exception in flight.                         *)
(***************************************************************************)
EXTENDS Integers, Sequences, FiniteSets, TLC

\* ------------------------------------------------------------- bounds
MaxPlayTime == 7        \* play time never runs past this many seconds
MaxFrame == 2           \* number of update calls in a run
MaxBursts == 3          \* the burst list is edited while it is no longer than this
SpawnUntil == 1                  \* play time up to which particles are spawned before a drain

\* the values the inputs and the configuration are drawn from
ElapsedTimes == {0, 1, 3, 6}    \* elapsedTime of _update
EmitCounts == {1}               \* count of emit(count)
Durations == {1, 3}             \* main.duration
BurstTimes == {0, 2}            \* burst.time
MaxParticlesValues == {1, 3}    \* values assigned to main.maxParticles
AddedBurstTimes == {0, 1, 2}    \* burst.time of the bursts given to addBurst
StartLifetimes == {1, 5}        \* values main.startLifetime.evaluate returns

\* ---------------------------------------------------- program constants
particleIncreaseCount == 128

\* ------------------------------------------------------------- state
VARIABLES
    \* ParticleSystem
    currentParticleCount,           \* capacity of the ring, in slots
    firstNewElement,
    firstActiveElement,
    firstFreeElement,
    firstRetiredElement,
    waitProcessRetiredElementCount,
    instanceVertices,               \* slot index -> record of the fields read back
    playTime,
    \* MainModule
    bufferMaxParticles,
    duration,
    loop,
    \* EmissionModule and ShapeModule
    enabled,
    shapeEnabled,
    rateOverTime,
    bursts,
    frameRateTime,
    currentBurstIndex,
    \* engine.time.frameCount
    frameCount,
    \* history of the run, for stating the properties (not program state)
    obs,
    hist

vars == << currentParticleCount, firstNewElement, firstActiveElement,
           firstFreeElement, firstRetiredElement, waitProcessRetiredElementCount,
           instanceVertices, playTime, bufferMaxParticles, duration, loop,
           enabled, shapeEnabled, rateOverTime, bursts, frameRateTime,
           currentBurstIndex, frameCount, obs, hist >>

\* ------------------------------------------------------------ helpers
\* A number read from the buffer is <<v>>; undefined (and NaN) is << >>.
Undef == << >>

Num(v) == << v >>

Min(a, b) == IF a < b THEN a ELSE b

\* The two fields of a slot record that the core reads back.  A fresh
\* Float32Array is zero-filled.
ZeroSlot == [time |-> 0, startLifeTime |-> 0]

\* instanceVertices[slot * stride + field]
ReadSlot(iv, slot, f) == IF slot \in DOMAIN iv THEN Num(iv[slot][f]) ELSE Undef

\* instanceVertices[slot * stride + field] = v
WriteSlot(iv, slot, f, v) ==
    IF slot \in DOMAIN iv THEN [iv EXCEPT ![slot][f] = v] ELSE iv

\* main.maxParticles (getter)
maxParticles == bufferMaxParticles - 1

\* The log of one handler call (history, not program state).
EmptyLog == [ setData  |-> << >>,    \* device uploads: [from, count, by]
              retired  |-> << >>,    \* slots passed by firstActiveElement
              freed    |-> << >>,    \* slots passed by firstRetiredElement
              requests |-> << >>,    \* particleSystem._emit calls of the scheduler
              written  |-> << >>,    \* slots written by _addNewParticle
              dropped  |-> 0,        \* _addNewParticle calls that returned early
              grown    |-> 0,        \* _recreateInstanceBuffer calls that completed
              atFree   |-> << >>,   \* the ring when the freeing pass began
              atUpload |-> << >>,   \* the ring when _update came to its upload test
              growth   |-> << >>,   \* the ring before and after each growing _addNewParticle
              phases   |-> << >>,   \* the steps of _update in the order they ran
              retiredSpawn |-> << >>,  \* spawn time of each particle retired (<< >>: the slot held none)
              allocated |-> << >>,     \* [slot, next, cap, live] of each record written
              stamped  |-> << >>,   \* [slot, stamp] of each write of the retire pass
              freeRead |-> << >> ]  \* [slot, read]: what the freeing pass read of a slot

\* The fields a handler reads and assigns, threaded through its steps.
Cur == [ cap   |-> currentParticleCount,
         fNew  |-> firstNewElement,
         fAct  |-> firstActiveElement,
         fFree |-> firstFreeElement,
         fRet  |-> firstRetiredElement,
         wait  |-> waitProcessRetiredElementCount,
         iv    |-> instanceVertices,
         pt    |-> playTime,
         frt   |-> frameRateTime,
         cbi   |-> currentBurstIndex,
         live  |-> hist.live,
         err   |-> FALSE,
         log   |-> EmptyLog ]

\* ---------------------------------------------------- ParticleSystem
\* if (++i >= this._currentParticleCount) i = 0
WrapNext(i, cap) == IF i + 1 >= cap THEN 0 ELSE i + 1

\* _recreateInstanceBuffer(particleCount), called with a count that is not
\* below the current one: the old array is copied to the front of the new one
\* and uploaded whole.
RecreateInstanceBuffer(s, particleCount) ==
    [s EXCEPT
       !.iv = [i \in 0..(particleCount - 1) |->
                  IF i \in DOMAIN s.iv THEN s.iv[i] ELSE ZeroSlot],
       !.cap = particleCount,
       !.log.setData = IF s.cap > 0
                       THEN Append(@, [from |-> 0, count |-> s.cap, by |-> "recreate"])
                       ELSE @,
       !.log.grown = @ + 1]

\* The tail of _addNewParticle: the record is written at firstFreeElement
\* and firstFreeElement becomes the nextFreeElement computed on entry.
WriteParticle(s, time, nextFreeElement) ==
    [s EXCEPT
       !.iv = WriteSlot(WriteSlot(s.iv, s.fFree, "startLifeTime", time),
                        s.fFree, "time", time),
       !.live = IF s.fFree \in DOMAIN s.iv THEN @ \cup {s.fFree} ELSE @,
       !.log.written = Append(@, s.fFree),
       !.log.allocated = Append(@, [slot |-> s.fFree, next |-> nextFreeElement,
                                    cap |-> s.cap, live |-> s.fFree \in s.live]),
       !.fFree = nextFreeElement]

\* the ring as one _addNewParticle call finds or leaves it
Snapshot(s) == [ cap |-> s.cap, fAct |-> s.fAct, fFree |-> s.fFree,
                 fRet |-> s.fRet, iv |-> s.iv ]

LogGrowth(before, after) ==
    [after EXCEPT !.log.growth =
        Append(@, [pre |-> Snapshot(before), post |-> Snapshot(after)])]

\* _addNewParticle without the early return of a full ring at its maximum
AddNewParticleNoReturn(s, time) ==
    LET nextFreeElement == WrapNext(s.fFree, s.cap)
    IN  IF nextFreeElement = s.fRet
        THEN LET availableCapacity == maxParticles - s.cap
                 increaseCount == Min(particleIncreaseCount, availableCapacity)
             IN  IF increaseCount < 0
                 THEN [s EXCEPT !.err = TRUE]
                 ELSE LET g == IF increaseCount = 0 THEN s
                               ELSE RecreateInstanceBuffer(s, s.cap + increaseCount)
                          h == [g EXCEPT
                                  !.fAct = IF s.fAct >= s.fRet
                                           THEN s.fAct + increaseCount ELSE s.fAct,
                                  !.fRet = s.fRet + increaseCount]
                      IN  WriteParticle(h, time, nextFreeElement)
        ELSE WriteParticle(s, time, nextFreeElement)

\* _addNewParticle(position, direction, transform, time)
AddNewParticle(s, time) ==
    LET nextFreeElement == WrapNext(s.fFree, s.cap)
    IN  IF nextFreeElement = s.fRet
        THEN LET availableCapacity == maxParticles - s.cap
                 increaseCount == Min(particleIncreaseCount, availableCapacity)
             IN  IF increaseCount = 0
                 THEN [s EXCEPT !.log.dropped = @ + 1]
                 ELSE IF increaseCount < 0
                 THEN \* new Float32Array of negative length, or set() of an
                      \* array longer than its target: RangeError
                      [s EXCEPT !.err = TRUE]
                 ELSE LET g == RecreateInstanceBuffer(s, s.cap + increaseCount)
                          h == [g EXCEPT
                                  !.fAct = IF s.fAct >= s.fRet
                                           THEN s.fAct + increaseCount ELSE s.fAct,
                                  !.fRet = s.fRet + increaseCount]
                      IN  LogGrowth(s, WriteParticle(h, time, nextFreeElement))
        ELSE WriteParticle(s, time, nextFreeElement)

\* for (let i = 0; i < count; i++) this._addNewParticle(...)
RECURSIVE AddParticles(_, _, _)
AddParticles(s, time, count) ==
    IF count <= 0 \/ s.err THEN s
    ELSE AddParticles(AddNewParticle(s, time), time, count - 1)

\* _emit(time, count)
EmitParticles(s, time, count) ==
    IF s.err THEN s
    ELSE IF enabled
         THEN IF shapeEnabled THEN s ELSE AddParticles(s, time, count)
         ELSE s

\* a retire test that finds every particle read from the buffer still alive
StillAliveForever(s) == ReadSlot(s.iv, s.fAct, "time") # Undef

\* _retireActiveParticles(): age + epsilon < lifetime, on whole numbers, is
\* age < lifetime; with an undefined operand the comparison is false.
StillAlive(s) ==
    LET t == ReadSlot(s.iv, s.fAct, "time")
        l == ReadSlot(s.iv, s.fAct, "startLifeTime")
    IN  t # Undef /\ l # Undef /\ (s.pt - t[1]) < l[1]

RECURSIVE RetireActiveParticles(_, _)
RetireActiveParticles(s, fc) ==
    IF s.fAct = s.fNew \/ StillAlive(s) THEN s
    ELSE RetireActiveParticles(
           [s EXCEPT !.iv = WriteSlot(s.iv, s.fAct, "time", fc),
                     !.fAct = WrapNext(s.fAct, s.cap),
                     !.wait = @ + 1,
                     !.live = @ \ {s.fAct},
                     !.log.retired = Append(@, s.fAct),
                     !.log.stamped = Append(@, [slot |-> s.fAct, stamp |-> fc]),
                     !.log.retiredSpawn =
                        Append(@, IF s.fAct \in s.live
                                  THEN ReadSlot(s.iv, s.fAct, "time") ELSE Undef)], fc)

\* _freeRetiredParticles(): age = frameCount - instanceVertices[... +
\* startLifeTimeOffset]; if (age < 0) break
TooYoung(s, fc) ==
    LET l == ReadSlot(s.iv, s.fRet, "startLifeTime")
    IN  l # Undef /\ fc - l[1] < 0

RECURSIVE FreeRetiredParticles(_, _)
FreeRetiredParticles(s, fc) ==
    IF s.fRet = s.fAct THEN s
    ELSE LET r == [s EXCEPT !.log.freeRead =
                      Append(@, [slot |-> s.fRet,
                                 read |-> ReadSlot(s.iv, s.fRet, "startLifeTime")])]
         IN  IF TooYoung(s, fc) THEN r
             ELSE FreeRetiredParticles(
                    [r EXCEPT !.fRet = WrapNext(s.fRet, s.cap),
                              !.log.freed = Append(@, s.fRet)], fc)

\* _addNewParticlesToVertexBuffer()
AddNewParticlesToVertexBuffer(s) ==
    LET calls ==
          IF s.fNew < s.fFree
          THEN << [from |-> s.fNew, count |-> s.fFree - s.fNew, by |-> "flush"] >>
          ELSE << [from |-> s.fNew, count |-> s.cap - s.fNew, by |-> "flush"] >>
               \o (IF s.fFree > 0
                   THEN << [from |-> 0, count |-> s.fFree, by |-> "flush"] >>
                   ELSE << >>)
    IN  IF s.cap = 0
        THEN \* this._instanceVertexBufferBinding is still undefined: TypeError
             [s EXCEPT !.err = TRUE]
        ELSE [s EXCEPT !.log.setData = @ \o calls, !.fNew = s.fFree]

\* ---------------------------------------------------- EmissionModule
\* The rate of emission is num/den per second.
Rates == { [num |-> 0, den |-> 1], [num |-> 1, den |-> 1], [num |-> 1, den |-> 2] }

\* 1.0 / ratePerSeconds
EmitInterval(rate) == rate.den \div rate.num

\* The sorted lists of at most n bursts; burst.count evaluates to 1.
Burst(t) == [time |-> t, count |-> 1]

IsSorted(l) == \A i \in 1..(Len(l) - 1) : l[i].time <= l[i + 1].time

\* the burst lists of a system: none, one burst, or two in order of time
BurstLists ==
    { << >> } \cup { << Burst(t) >> : t \in BurstTimes }
              \cup { l \in { << Burst(t), Burst(u) >> : t, u \in BurstTimes } : IsSorted(l) }

\* the while loop of _emitByRateOverTime
RECURSIVE RateLoop(_, _, _)
RateLoop(s, cumulativeTime, emitInterval) ==
    IF s.err \/ cumulativeTime < emitInterval THEN s
    ELSE LET r == [s EXCEPT !.log.requests =
                       Append(@, [by |-> "rate", index |-> 0, time |-> s.frt, count |-> 1])]
             e == EmitParticles(r, s.frt, 1)
         IN  IF e.err THEN e
             ELSE RateLoop([e EXCEPT !.frt = @ + emitInterval],
                           cumulativeTime - emitInterval, emitInterval)

\* _emitByRateOverTime(playTime)
EmitByRateOverTime(s, pt) ==
    IF s.err THEN s
    ELSE IF rateOverTime.num > 0
         THEN RateLoop(s, pt - s.frt, EmitInterval(rateOverTime))
         ELSE s

\* the for loop of _emitBySubBurst; index counts from 0
RECURSIVE SubBurstLoop(_, _, _, _, _)
SubBurstLoop(s, index, lastPlayTime, burstStart, burstEnd) ==
    IF s.err THEN s
    ELSE IF index >= Len(bursts) THEN [s EXCEPT !.cbi = index]
    ELSE LET burst == bursts[index + 1]
         IN  IF burst.time > burstEnd THEN [s EXCEPT !.cbi = index]
             ELSE IF burst.time >= burstStart
                  THEN LET r == [s EXCEPT !.log.requests =
                                    Append(@, [by |-> "burst", index |-> index,
                                               time |-> lastPlayTime + burst.time,
                                               count |-> burst.count])]
                       IN  SubBurstLoop(
                             EmitParticles(r, lastPlayTime + burst.time, burst.count),
                             index + 1, lastPlayTime, burstStart, burstEnd)
                  ELSE SubBurstLoop(s, index + 1, lastPlayTime, burstStart, burstEnd)

\* _emitBySubBurst(lastPlayTime, playTime)
EmitBySubBurst(s, lastPlayTime, pt) ==
    LET burstDuration == pt - lastPlayTime
        burstStart == lastPlayTime % duration
        burstEnd == burstStart + burstDuration
    IN  SubBurstLoop(s, s.cbi, lastPlayTime, burstStart, burstEnd)

\* Math.floor(playTime - lastPlayTime / duration): the division binds tighter
CycleCount(lastPlayTime, pt) == (pt * duration - lastPlayTime) \div duration

\* Math.ceil(lastPlayTime / duration) * duration
FirstMiddleTime(lastPlayTime) == ((lastPlayTime + duration - 1) \div duration) * duration

ResetBurstIndex(s) == IF s.err THEN s ELSE [s EXCEPT !.cbi = 0]

\* the for loop of _emitByBurst; yields the state and the last middleTime
RECURSIVE CycleLoop(_, _, _)
CycleLoop(s, middleTime, n) ==
    IF n <= 0 \/ s.err THEN [s |-> s, middleTime |-> middleTime]
    ELSE CycleLoop(ResetBurstIndex(EmitBySubBurst(s, middleTime, middleTime + duration)),
                   middleTime + duration, n - 1)

\* _emitByBurst(lastPlayTime, playTime)
EmitByBurst(s, lastPlayTime, pt) ==
    LET cycleCount == CycleCount(lastPlayTime, pt)
    IN  IF s.err THEN s
        ELSE IF loop /\ (cycleCount > 0 \/ pt < lastPlayTime)
        THEN LET middleTime == FirstMiddleTime(lastPlayTime)
                 a == ResetBurstIndex(EmitBySubBurst(s, lastPlayTime, middleTime))
                 b == CycleLoop(a, middleTime, cycleCount)
             IN  EmitBySubBurst(b.s, b.middleTime, pt)
        ELSE EmitBySubBurst(s, lastPlayTime, pt)

\* EmissionModule._emit(lastPlayTime, playTime)
EmissionEmit(s, lastPlayTime, pt) ==
    EmitByBurst(EmitByRateOverTime(s, pt), lastPlayTime, pt)

\* ------------------------------------------------------------ handlers
\* a step of _update begins
Phase(s, name) == [s EXCEPT !.log.phases = Append(@, name)]

\* _update with the emission ahead of the retirement and the freeing
UpdateStepsEmitFirst(s, lastPlayTime, fc) ==
    LET e == IF enabled THEN EmissionEmit(Phase(s, "emit"), lastPlayTime, s.pt) ELSE s
        r == RetireActiveParticles(Phase(e, "retire"), fc)
        f == FreeRetiredParticles(
               [Phase(r, "free") EXCEPT !.log.atFree =
                  << [fRet |-> r.fRet, fAct |-> r.fAct, fNew |-> r.fNew,
                      fFree |-> r.fFree, cap |-> r.cap] >>], fc)
        u == [f EXCEPT !.log.atUpload =
                 << [fNew |-> f.fNew, fFree |-> f.fFree, cap |-> f.cap, wait |-> f.wait] >>]
    IN  IF e.err THEN e
        ELSE IF u.wait > 0 \/ u.fNew # u.fFree
             THEN AddNewParticlesToVertexBuffer(Phase(u, "upload"))
             ELSE u

\* The frame part of _update: retirement, freeing, emission, upload.
UpdateSteps(s, lastPlayTime, fc) ==
    LET r == RetireActiveParticles(Phase(s, "retire"), fc)
        f == FreeRetiredParticles(
               [Phase(r, "free") EXCEPT !.log.atFree =
                  << [fRet |-> r.fRet, fAct |-> r.fAct, fNew |-> r.fNew,
                      fFree |-> r.fFree, cap |-> r.cap] >>], fc)
        e == IF enabled THEN EmissionEmit(Phase(f, "emit"), lastPlayTime, s.pt) ELSE f
        u == [e EXCEPT !.log.atUpload =
                 << [fNew |-> e.fNew, fFree |-> e.fFree, cap |-> e.cap, wait |-> e.wait] >>]
    IN  IF e.err THEN e
        ELSE IF u.wait > 0 \/ u.fNew # u.fFree
             THEN AddNewParticlesToVertexBuffer(Phase(u, "upload"))
             ELSE u

\* number of requests of the log made by burst i (counted from 0)
RECURSIVE CountBurst(_, _)
CountBurst(reqs, i) ==
    IF reqs = << >> THEN 0
    ELSE (IF Head(reqs).by = "burst" /\ Head(reqs).index = i THEN 1 ELSE 0)
         + CountBurst(Tail(reqs), i)

RECURSIVE CountRate(_)
CountRate(reqs) ==
    IF reqs = << >> THEN 0
    ELSE (IF Head(reqs).by = "rate" THEN 1 ELSE 0) + CountRate(Tail(reqs))

\* The program's fields after a handler, and the history of the call.
Commit(s, op, arg) ==
    /\ currentParticleCount' = s.cap
    /\ firstNewElement' = s.fNew
    /\ firstActiveElement' = s.fAct
    /\ firstFreeElement' = s.fFree
    /\ firstRetiredElement' = s.fRet
    /\ waitProcessRetiredElementCount' = s.wait
    /\ instanceVertices' = s.iv
    /\ playTime' = s.pt
    /\ frameRateTime' = s.frt
    /\ currentBurstIndex' = s.cbi
    /\ obs' = [ op |-> op, arg |-> arg, thrown |-> s.err, log |-> s.log ]
    /\ hist' = [ live |-> s.live,
                 thrown |-> hist.thrown \/ s.err,
                 rateRequests |-> hist.rateRequests + CountRate(s.log.requests),
                 burstFires |-> [i \in DOMAIN hist.burstFires |->
                                   hist.burstFires[i] + CountBurst(s.log.requests, i - 1)] ]

Init ==
    /\ currentParticleCount = 0
    /\ firstNewElement = 0
    /\ firstActiveElement = 0
    /\ firstFreeElement = 0
    /\ firstRetiredElement = 0
    /\ waitProcessRetiredElementCount = 0
    /\ instanceVertices = [i \in {} |-> ZeroSlot]
    /\ playTime = 0
    /\ bufferMaxParticles = 0
    /\ duration \in Durations
    /\ loop \in BOOLEAN
    /\ enabled \in BOOLEAN
    /\ shapeEnabled \in BOOLEAN
    /\ rateOverTime \in Rates
    /\ bursts \in BurstLists
    /\ frameRateTime = 0
    /\ currentBurstIndex = 0
    /\ frameCount = 0
    /\ obs = [ op |-> "new", arg |-> 0, thrown |-> FALSE, log |-> EmptyLog ]
    /\ hist = [ live |-> {}, thrown |-> FALSE, rateRequests |-> 0,
                burstFires |-> [i \in 1..Len(bursts) |-> 0] ]

\* _update(elapsedTime), called once in every frame of the engine
Update(elapsedTime) ==
    /\ frameCount < MaxFrame
    /\ playTime + elapsedTime <= MaxPlayTime
    /\ frameCount' = frameCount + 1
    /\ LET s == [Cur EXCEPT !.pt = playTime + elapsedTime]
       IN  Commit(UpdateSteps(s, playTime, frameCount + 1), "update", elapsedTime)
    /\ UNCHANGED << bufferMaxParticles, duration, loop, enabled, shapeEnabled,
                    rateOverTime, bursts >>

\* emit(count)
Emit(count) ==
    /\ Commit(EmitParticles(Cur, playTime, count), "emit", count)
    /\ UNCHANGED << bufferMaxParticles, duration, loop, enabled, shapeEnabled,
                    rateOverTime, bursts, frameCount >>

\* main.maxParticles = value
SetMaxParticles(value) ==
    /\ value + 1 # bufferMaxParticles
    /\ bufferMaxParticles' = value + 1
    /\ obs' = [ op |-> "maxParticles", arg |-> value, thrown |-> FALSE, log |-> EmptyLog ]
    /\ UNCHANGED << currentParticleCount, firstNewElement, firstActiveElement,
                    firstFreeElement, firstRetiredElement,
                    waitProcessRetiredElementCount, instanceVertices, playTime,
                    duration, loop, enabled, shapeEnabled, rateOverTime, bursts,
                    frameRateTime, currentBurstIndex, frameCount, hist >>

Next ==
    \/ \E elapsedTime \in ElapsedTimes : Update(elapsedTime)
    \/ \E count \in EmitCounts : Emit(count)
    \/ \E value \in MaxParticlesValues : SetMaxParticles(value)

Spec == Init /\ [][Next]_vars

\* ------------------------------------------------ editing the burst list
\* bursts.splice(index, 0, burst), index counted from 0
SpliceIn(l, index, burst) ==
    SubSeq(l, 1, index) \o << burst >> \o SubSeq(l, index + 1, Len(l))

\* bursts.splice(index, 1): a negative index counts from the end, an index
\* outside the list removes nothing
SpliceOut(l, index) ==
    LET start == IF index < 0
                 THEN (IF Len(l) + index < 0 THEN 0 ELSE Len(l) + index)
                 ELSE index
    IN  IF start >= Len(l) THEN l
        ELSE SubSeq(l, 1, start) \o SubSeq(l, start + 2, Len(l))

\* the while loop of addBurst; burstIndex is the value after --burstIndex
RECURSIVE AddBurstLoop(_, _, _)
AddBurstLoop(l, burstIndex, burst) ==
    IF burstIndex >= 0 /\ burst.time < l[burstIndex + 1].time
    THEN AddBurstLoop(SpliceIn(l, burstIndex + 1, burst), burstIndex - 1, burst)
    ELSE l

\* addBurst(burst), on the list
AddBurstTo(l, burst) == AddBurstLoop(l, Len(l) - 1, burst)

\* this._bursts.indexOf(burst), counted from 0; -1 if absent
IndexOf(l, burst) ==
    IF \E i \in 1..Len(l) : l[i] = burst
    THEN (CHOOSE i \in 1..Len(l) : l[i] = burst /\ \A j \in 1..(i - 1) : l[j] # burst) - 1
    ELSE -1

\* The burst list after an edit; the history follows the new list.
SetBursts(l, op, arg) ==
    /\ bursts' = l
    /\ obs' = [ op |-> op, arg |-> arg, thrown |-> FALSE, log |-> EmptyLog ]
    /\ hist' = [hist EXCEPT !.burstFires = [i \in 1..Len(l) |-> 0]]
    /\ UNCHANGED << currentParticleCount, firstNewElement, firstActiveElement,
                    firstFreeElement, firstRetiredElement,
                    waitProcessRetiredElementCount, instanceVertices, playTime,
                    bufferMaxParticles, duration, loop, enabled, shapeEnabled,
                    rateOverTime, frameRateTime, currentBurstIndex, frameCount >>

\* addBurst(burst)
AddBurst(burst) ==
    /\ Len(AddBurstTo(bursts, burst)) <= MaxBursts
    /\ SetBursts(AddBurstTo(bursts, burst), "addBurst", burst.time)

\* removeBurst(burst)
RemoveBurst(burst) ==
    LET index == IndexOf(bursts, burst)
    IN  SetBursts(IF index # -1 THEN SpliceOut(bursts, index) ELSE bursts,
                  "removeBurst", burst.time)

\* removeBurstByIndex(index)
RemoveBurstByIndex(index) ==
    SetBursts(SpliceOut(bursts, index), "removeBurstByIndex", index)

\* clearBurst()
ClearBurst ==
    SetBursts(<< >>, "clearBurst", 0)

BurstNext ==
    \/ \E t \in AddedBurstTimes : AddBurst(Burst(t))
    \/ \E t \in AddedBurstTimes : RemoveBurst(Burst(t))
    \/ \E index \in -1..MaxBursts : RemoveBurstByIndex(index)
    \/ ClearBurst

BurstSpec == Init /\ [][BurstNext]_vars

\* The same system driven with larger requests: emit(5) and a maximum of
\* 2 or 4 particles, the sizes of the allocation scenario of the spec.
ScenarioEmitCounts == {5}
ScenarioMaxParticlesValues == {2, 4}

ScenarioNext ==
    \/ \E elapsedTime \in ElapsedTimes : Update(elapsedTime)
    \/ \E count \in ScenarioEmitCounts : Emit(count)
    \/ \E value \in ScenarioMaxParticlesValues : SetMaxParticles(value)

ScenarioSpec == Init /\ [][ScenarioNext]_vars

\* ------------------------------------------------- draining the ring
\* Particles are spawned up to play time SpawnUntil; then the caller sets
\* emission.enabled = false and the engine keeps calling _update, once per
\* frame, with a positive elapsed time.  The run is followed up to play time
\* DrainUntil and, while the ring holds a particle, up to DrainLimit.
DrainElapsedTimes == {1, 2}

DrainUntil == SpawnUntil + MaxFrame + 1

DrainLimit == 4 * MaxPlayTime

\* every cursor on the same slot: nothing new, active or retired is left
Drained ==
    /\ firstActiveElement = firstNewElement
    /\ firstNewElement = firstFreeElement
    /\ firstRetiredElement = firstActiveElement

\* the emission is disabled and the run is followed for one more frame
FrameDue ==
    /\ ~enabled
    /\ playTime < DrainLimit
    /\ playTime < DrainUntil \/ ~Drained

\* emission.enabled = false
DisableEmission ==
    /\ enabled
    /\ playTime <= SpawnUntil
    /\ enabled' = FALSE
    /\ obs' = [ op |-> "disable", arg |-> 0, thrown |-> FALSE, log |-> EmptyLog ]
    /\ UNCHANGED << currentParticleCount, firstNewElement, firstActiveElement,
                    firstFreeElement, firstRetiredElement,
                    waitProcessRetiredElementCount, instanceVertices, playTime,
                    bufferMaxParticles, duration, loop, shapeEnabled,
                    rateOverTime, bursts, frameRateTime, currentBurstIndex,
                    frameCount, hist >>

\* _update(elapsedTime) of a frame while particles are still spawned
SpawnUpdate(elapsedTime) ==
    /\ enabled
    /\ playTime + elapsedTime <= SpawnUntil
    /\ Update(elapsedTime)

\* emit(count) and main.maxParticles = value, called while particles are
\* still spawned
SpawnEmit(count) == enabled /\ Emit(count)

SpawnSetMaxParticles(value) == enabled /\ SetMaxParticles(value)

\* _update(elapsedTime) of a later frame, the emission being disabled
DrainUpdate(elapsedTime) ==
    /\ FrameDue
    /\ playTime + elapsedTime <= DrainLimit
    /\ frameCount' = frameCount + 1
    /\ LET s == [Cur EXCEPT !.pt = playTime + elapsedTime]
       IN  Commit(UpdateSteps(s, playTime, frameCount + 1), "update", elapsedTime)
    /\ UNCHANGED << bufferMaxParticles, duration, loop, enabled, shapeEnabled,
                    rateOverTime, bursts >>

DrainFrame == \E elapsedTime \in DrainElapsedTimes : DrainUpdate(elapsedTime)

DrainNext ==
    \/ \E elapsedTime \in ElapsedTimes : SpawnUpdate(elapsedTime)
    \/ \E count \in EmitCounts : SpawnEmit(count)
    \/ \E value \in MaxParticlesValues : SpawnSetMaxParticles(value)
    \/ DisableEmission
    \/ DrainFrame

\* a system that spawns: emission enabled, no shape, a rate of 0 or 1 per
\* second, at most one burst
DrainInit ==
    /\ Init
    /\ enabled
    /\ ~shapeEnabled
    /\ rateOverTime.den = 1
    /\ Len(bursts) <= 1

\* The engine renders frame after frame: a frame that can run does run.
\* This is WF_vars(DrainFrame) written out, ENABLED <<DrainFrame>>_vars
\* being FrameDue (_update always returns or throws, and 1 is an elapsed
\* time).
FrameFairness == []<>(~FrameDue) \/ []<><<DrainFrame>>_vars

DrainSpec == DrainInit /\ [][DrainNext]_vars /\ FrameFairness


\* ------------------------------------------------------------ properties
\* length of the circular range [from, to) of a ring of cap slots
CircLen(from, to, cap) == IF from <= to THEN to - from ELSE cap - from + to

\* the slots a, a + 1, ..., b - 1 in order
Range(a, b) == [i \in 1..(b - a) |-> a + i - 1]

\* The circular range [from, to) in the order a cursor walks it.  A cursor
\* equal to the capacity walks one position before it wraps to 0.
Region(from, to, cap) ==
    IF from <= to THEN Range(from, to)
    ELSE Range(from, IF cap > from THEN cap ELSE from + 1) \o Range(0, to)

Elems(q) == { q[i] : i \in 1..Len(q) }

IsPrefix(p, q) == Len(p) <= Len(q) /\ \A i \in 1..Len(p) : p[i] = q[i]

\* the slots that hold a particle written by allocate and not yet retired
LiveParticles == Cardinality(hist.live)

\* C1: at capacity >= 1, the number of live particles is the circular length
\* of [firstActive, firstFree) and is at most capacity - 1.
C1_LiveAtMostCapacityMinusOne ==
    currentParticleCount >= 1 =>
       /\ LiveParticles = CircLen(firstActiveElement, firstFreeElement, currentParticleCount)
       /\ LiveParticles <= currentParticleCount - 1

\* the slots passed by firstRetiredElement in the last update are a prefix
\* of the retired region [firstRetired, firstActive) as the pass found it
FreedPrefixOfRetired ==
    obs.op = "update" =>
       LET af == obs.log.atFree[1]
       IN  IsPrefix(obs.log.freed, Region(af.fRet, af.fAct, af.cap))

\* C2: the slots freed by the freeing pass of an update are a prefix of the
\* retired region [firstRetired, firstActive) as it was when the pass began,
\* and none of them is an active or new slot, that is a slot of
\* [firstActive, firstFree) as the cursors stood when the pass began.
C2_FreedIsPrefixOfRetired ==
    /\ FreedPrefixOfRetired
    /\ obs.op = "update" =>
          LET af == obs.log.atFree[1]
          IN  (Elems(obs.log.freed) \cap 0..(af.cap - 1))
                 \cap Elems(Region(af.fAct, af.fFree, af.cap)) = {}

\* C3: a slot retired in an update is not freed in the same update.
C3_NotFreedInRetiringFrame ==
    obs.op = "update" =>
       \A x \in Elems(obs.log.retired) \cap Elems(obs.log.freed) :
          x \notin 0..(obs.log.atFree[1].cap - 1)

\* the k whose trigger time k * duration + t lies in [from, to]
Triggers(t, from, to) == { k \in 0..to : from <= k * duration + t /\ k * duration + t <= to }

\* the k whose trigger time k * duration + t lies strictly between from and to
TriggersInside(t, from, to) == { k \in 0..to : from < k * duration + t /\ k * duration + t < to }

\* C4: with loop enabled, one frame step fires each burst once for every
\* trigger time k * duration + burst.time in [lastPlayTime, playTime]: at
\* least once for every trigger time strictly inside the step and at most
\* once for every trigger time of the closed interval.
C4_BurstOncePerCycleCrossed ==
    (obs.op = "update" /\ loop /\ enabled /\ ~hist.thrown) =>
       \A i \in 1..Len(bursts) :
          bursts[i].time <= duration =>
             LET fired == CountBurst(obs.log.requests, i - 1)
                 from == playTime - obs.arg
             IN  /\ fired >= Cardinality(TriggersInside(bursts[i].time, from, playTime))
                 /\ fired <= Cardinality(Triggers(bursts[i].time, from, playTime))

\* C5: with loop = false, a burst has fired once as soon as a frame has
\* reached its trigger time, and never more than once.
C5_BurstExactlyOnce ==
    (~loop /\ enabled) =>
       \A i \in 1..Len(bursts) :
          bursts[i].time <= duration =>
             hist.burstFires[i]
                = (IF frameCount >= 1 /\ playTime >= bursts[i].time THEN 1 ELSE 0)

\* C6: with loop enabled, a burst fires at most once in every cycle begun.
C6_BurstAtMostOncePerCycle ==
    (loop /\ enabled /\ ~hist.thrown) =>
       \A i \in 1..Len(bursts) :
          bursts[i].time <= duration =>
             hist.burstFires[i] <= (playTime \div duration) + 1

\* C7: the continuous-rate requests issued up to play time T number
\* floor(rate * T).
C7_RateRequestsAreFloorRT ==
    (enabled /\ rateOverTime.num > 0) =>
       hist.rateRequests = (rateOverTime.num * playTime) \div rateOverTime.den

\* the uploads of _addNewParticlesToVertexBuffer in the last update
RECURSIVE FlushCalls(_)
FlushCalls(calls) ==
    IF calls = << >> THEN << >>
    ELSE (IF Head(calls).by = "flush" THEN << Head(calls) >> ELSE << >>)
         \o FlushCalls(Tail(calls))

Uploaded(calls) ==
    UNION { c.from .. (c.from + c.count - 1) : c \in Elems(calls) }

FlushInvoked ==
    /\ obs.op = "update"
    /\ obs.log.atUpload # << >>
    /\ \/ obs.log.atUpload[1].wait > 0
       \/ obs.log.atUpload[1].fNew # obs.log.atUpload[1].fFree

\* C8: a flush issues at most 2 uploads, uploads exactly the slots of
\* [firstNew, firstFree) as on entry, and leaves firstNew = firstFree.
C8_FlushUploadsExactlyNew ==
    FlushInvoked =>
       LET u == obs.log.atUpload[1]
           calls == FlushCalls(obs.log.setData)
       IN  /\ Len(calls) <= 2
           /\ Uploaded(calls) = Elems(Region(u.fNew, u.fFree, u.cap))
           /\ firstNewElement = firstFreeElement

\* C9: an update in whose frame nothing was spawned since the last upload
\* and nothing was retired issues no upload.
C9_IdleFrameUploadsNothing ==
    ( /\ obs.op = "update"
      /\ obs.log.atUpload # << >>
      /\ obs.log.atUpload[1].fNew = obs.log.atUpload[1].fFree
      /\ obs.log.written = << >>
      /\ obs.log.retired = << >> ) => obs.log.setData = << >>

\* the ring is full and the capacity has reached main.maxParticles, with
\* the emission module letting emit(count) through to _addNewParticle
C10_FullRingAtMaximum ==
    /\ WrapNext(firstFreeElement, currentParticleCount) = firstRetiredElement
    /\ maxParticles - currentParticleCount = 0
    /\ enabled /\ ~shapeEnabled

C11_OverflowIsDropped ==
    ( /\ obs.op = "emit" /\ obs.arg = 5 /\ ~obs.thrown
      /\ enabled /\ ~shapeEnabled
      /\ currentParticleCount = 4 /\ maxParticles = 4 ) =>
       /\ Len(obs.log.written) <= 3
       /\ obs.log.dropped >= 2

\* C12: a step changes the capacity only by min(128, maxParticles - capacity)
\* and only if that amount is positive; the capacity never decreases, and
\* a ring that exists never holds more slots than the configured maximum,
\* also when maxParticles is set below the current capacity.
C12_CapacityWithinMaximum ==
    [][ /\ currentParticleCount' >= currentParticleCount
        /\ currentParticleCount' # currentParticleCount =>
              /\ maxParticles - currentParticleCount > 0
              /\ currentParticleCount' = currentParticleCount
                    + Min(particleIncreaseCount, maxParticles - currentParticleCount)
        /\ currentParticleCount' >= 1 =>
              currentParticleCount' <= bufferMaxParticles' - 1 ]_vars

\* the records of the slots q of the buffer iv, in order
RecordsOf(iv, q) == [i \in 1..Len(q) |-> IF q[i] \in DOMAIN iv THEN << iv[q[i]] >> ELSE Undef]

ActiveRecords(r) == RecordsOf(r.iv, Region(r.fAct, r.fFree, r.cap))

RetiredRecords(r) == RecordsOf(r.iv, Region(r.fRet, r.fAct, r.cap))

\* C13: a growth of an existing ring keeps the contents of the regions: the
\* records read from firstActive to firstFree after the growing allocation
\* are those read before it followed by the new particle, and the records
\* read from firstRetired to firstActive are the same as before.
C13_GrowthPreservesRegions ==
    \A i \in 1..Len(obs.log.growth) :
       LET g == obs.log.growth[i]
       IN  g.pre.cap >= 1 =>
              /\ Len(ActiveRecords(g.post)) = Len(ActiveRecords(g.pre)) + 1
              /\ SubSeq(ActiveRecords(g.post), 1, Len(ActiveRecords(g.pre)))
                    = ActiveRecords(g.pre)
              /\ RetiredRecords(g.post) = RetiredRecords(g.pre)

\* q lists some of the members of p, each once, in the order of p
RECURSIVE InOrderOf(_, _)
InOrderOf(q, p) ==
    IF q = << >> THEN TRUE
    ELSE IF p = << >> THEN FALSE
    ELSE IF Head(q) = Head(p) THEN InOrderOf(Tail(q), Tail(p))
    ELSE InOrderOf(q, Tail(p))

C16_RetiredOnlyWhenExpired ==
    obs.op = "update" =>
       \A i \in 1..Len(obs.log.retiredSpawn) :
          obs.log.retiredSpawn[i] # Undef =>
             \A L \in StartLifetimes : playTime - obs.log.retiredSpawn[i][1] >= L

\* the cursors in their circular chase order firstRetired, firstActive,
\* firstNew, firstFree: walked in that order they stay within one lap
ChaseOrder ==
    CircLen(firstRetiredElement, firstActiveElement, currentParticleCount)
      + CircLen(firstActiveElement, firstNewElement, currentParticleCount)
      + CircLen(firstNewElement, firstFreeElement, currentParticleCount)
      <= currentParticleCount - 1

\* C17: in every state with a ring, [firstActive, firstFree) holds exactly
\* the live particles, [firstFree, firstRetired) holds none of them, and the
\* four cursors keep their circular chase order.
C17_RingPartition ==
    currentParticleCount >= 1 =>
       /\ Elems(Region(firstActiveElement, firstFreeElement, currentParticleCount)) = hist.live
       /\ Elems(Region(firstFreeElement, firstRetiredElement, currentParticleCount)) \cap hist.live = {}
       /\ ChaseOrder

\* C18: every allocation that writes a record leaves firstFree at the written
\* slot plus one, modulo the capacity in force after the call.
C18_FirstFreeAdvancesModuloNewCapacity ==
    \A i \in 1..Len(obs.log.allocated) :
       LET a == obs.log.allocated[i]
       IN  a.next = (a.slot + 1) % a.cap

\* C19: what the freeing pass reads of a slot that the retire pass of the
\* same update stamped is the frame counter the retire pass stored there.
C19_FreeReadsRetireStamp ==
    obs.op = "update" =>
       \A i \in 1..Len(obs.log.stamped) : \A j \in 1..Len(obs.log.freeRead) :
          (obs.log.stamped[i].slot = obs.log.freeRead[j].slot
             /\ obs.log.stamped[i].slot \in 0..(currentParticleCount - 1))
          => obs.log.freeRead[j].read = << obs.log.stamped[i].stamp >>

\* the multiples of duration reached so far at which a burst of trigger time
\* t (0 or duration) is due: 0, duration, ... for t = 0; duration, ... for
\* t = duration
BoundariesReached(t) == (playTime \div duration) + (IF t = 0 THEN 1 ELSE 0)

\* C20: with loop enabled, a burst whose trigger time is 0 or duration has
\* fired at most once for every cycle boundary the play time has reached.
C20_BoundaryBurstOncePerBoundary ==
    (loop /\ enabled) =>
       \A i \in 1..Len(bursts) :
          bursts[i].time \in {0, duration} =>
             hist.burstFires[i] <= BoundariesReached(bursts[i].time)

\* C21: once the emission is disabled and _update keeps being called with a
\* positive elapsed time and an increasing frame counter, the ring is
\* eventually drained and stays drained.
C21_EventuallyDrained == <>[](~enabled => Drained)

C21_Witness ==
    /\ ~enabled
    /\ Drained
    /\ obs.op = "update"
    /\ Len(obs.log.freed) > 0
    /\ \E i \in 1..Len(obs.log.retiredSpawn) : obs.log.retiredSpawn[i] # Undef

\* C22: no allocation writes its record into a slot that holds a particle
\* written earlier and not retired since.
C22_NeverOverwritesLive ==
    \A i \in 1..Len(obs.log.allocated) : ~obs.log.allocated[i].live

\* C23: on a ring of capacity >= 1 each of the four cursors is a slot index
\* 0..capacity-1, and the retire and free passes of an update take at most
\* capacity steps each.
C23_CursorsInRange ==
    currentParticleCount >= 1 =>
       /\ { firstNewElement, firstActiveElement, firstFreeElement,
            firstRetiredElement } \subseteq 0..(currentParticleCount - 1)
       /\ obs.op = "update" =>
             /\ Len(obs.log.retired) <= currentParticleCount
             /\ Len(obs.log.freed) <= currentParticleCount

\* C24: addBurst(b) makes the burst list longer by exactly one element.
C24_AddBurstInsertsOnce ==
    [][ obs'.op = "addBurst" => Len(bursts') = Len(bursts) + 1 ]_vars

\* C25: every request the scheduler issues in an update carries a time stamp
\* of that frame's interval [lastPlayTime, playTime].
C25_RequestStampsInsideFrame ==
    obs.op = "update" =>
       \A i \in 1..Len(obs.log.requests) :
          /\ playTime - obs.arg <= obs.log.requests[i].time
          /\ obs.log.requests[i].time <= playTime

====
